---- MODULE Spec2Model ----
(***************************************************************************)
(* checkpoint-tools: the command-line front end (checkpoint_tools/__main__)*)
(* and the state-dict pipeline it drives.                                  *)
(*                                                                         *)
(* One invocation of one command is modelled per behaviour.  A command is  *)
(* a straight line of stage calls; each stage call is one step, and `pc`   *)
(* is the command's position.  What the environment supplies (option       *)
(* values, file contents, whether a path exists, whether a stage raises)   *)
(* is drawn at the statement that first reads it and kept afterwards.      *)
(*                                                                         *)
(* Strings that the code takes apart (keys, `old:new` pairs) are sequences *)
(* of one-character strings.  An ordered dict is a sequence of <<key,      *)
(* value>> pairs with distinct keys, in insertion order.                   *)
(***************************************************************************)
EXTENDS Integers, Sequences, FiniteSets, TLC

\* ------------------------------------------------------------------ bounds

\* Keys per input checkpoint.
MaxKeys == 2
\* `--replace-key` options per invocation.
MaxRules == 2
\* Input files of one `combine`.
MaxFiles == 2
\* Tensors of the checkpoint `metadata` reads.
MaxTensors == 2
\* Dimensions of a tensor `metadata` reads.
MaxRank == 5

\* ------------------------------------------------------ ordered dicts, text

NoValue == "<missing>"

DictKeys(d) == {d[i][1] : i \in DOMAIN d}

DictHas(d, k) == \E i \in DOMAIN d : d[i][1] = k

DictGet(d, k) == d[CHOOSE i \in DOMAIN d : d[i][1] = k][2]

\* d[k] = v : an existing key keeps its position, a new key is appended.
DictSet(d, k, v) ==
    IF DictHas(d, k)
    THEN [i \in DOMAIN d |-> IF d[i][1] = k THEN <<k, v>> ELSE d[i]]
    ELSE Append(d, <<k, v>>)

\* dict(pairs): the pairs set one after the other.
RECURSIVE DictFromPairsAcc(_, _)
DictFromPairsAcc(acc, pairs) ==
    IF pairs = <<>> THEN acc
    ELSE DictFromPairsAcc(DictSet(acc, Head(pairs)[1], Head(pairs)[2]), Tail(pairs))

DictFromPairs(pairs) == DictFromPairsAcc(<<>>, pairs)

\* DictUpdate with a fault: a key already present keeps its first value.
RECURSIVE DictUpdateKeepFirst(_, _)
DictUpdateKeepFirst(d, other) ==
    IF other = <<>> THEN d
    ELSE DictUpdateKeepFirst(
             IF DictHas(d, Head(other)[1]) THEN d
             ELSE Append(d, Head(other)),
             Tail(other))

\* d.update(other): every entry of other set in d, in other's order.
RECURSIVE DictUpdate(_, _)
DictUpdate(d, other) ==
    IF other = <<>> THEN d
    ELSE DictUpdate(DictSet(d, Head(other)[1], Head(other)[2]), Tail(other))

\* Index of the first c in s, 0 when there is none.
FirstIndex(s, c) ==
    IF \E i \in DOMAIN s : s[i] = c
    THEN CHOOSE i \in DOMAIN s : s[i] = c /\ \A j \in 1..(i - 1) : s[j] # c
    ELSE 0

\* Index of the last c in s, 0 when there is none.
LastIndex(s, c) ==
    IF \E i \in DOMAIN s : s[i] = c
    THEN CHOOSE i \in DOMAIN s : s[i] = c /\ \A j \in (i + 1)..Len(s) : s[j] # c
    ELSE 0

\* Partition with a fault: split at the last ":".
PartitionLast(s) ==
    LET i == LastIndex(s, ":")
    IN IF i = 0 THEN <<s, <<>>>>
       ELSE <<SubSeq(s, 1, i - 1), SubSeq(s, i + 1, Len(s))>>

\* str.partition(":") as <<before, after>>: split at the first ":", and
\* <<s, "">> when s holds none.
Partition(s) ==
    LET i == FirstIndex(s, ":")
    IN IF i = 0 THEN <<s, <<>>>>
       ELSE <<SubSeq(s, 1, i - 1), SubSeq(s, i + 1, Len(s))>>

\* dict((key, value) for key, _, value in (key.partition(":") for key in replace_key))
ParseReplaceKeys(replace_key) ==
    DictFromPairs([i \in DOMAIN replace_key |-> Partition(replace_key[i])])

\* str.replace(old, new): every non-overlapping occurrence, left to right.
RECURSIVE Replace(_, _, _)
Replace(s, old, new) ==
    IF old = <<>>
    THEN IF s = <<>> THEN new
         ELSE new \o <<Head(s)>> \o Replace(Tail(s), old, new)
    ELSE IF Len(s) < Len(old) THEN s
    ELSE IF SubSeq(s, 1, Len(old)) = old
    THEN new \o Replace(SubSeq(s, Len(old) + 1, Len(s)), old, new)
    ELSE <<Head(s)>> \o Replace(Tail(s), old, new)

\* ------------------------------------------------------------- input sets

\* Keys of the input checkpoints: a routing prefix (u, v) and a leaf (a, b).
KeyUniverse == { <<"u", "a">>, <<"u", "b">>, <<"v", "a">> }

\* The tensor the loader returns for key k of input number src: a 2-D float
\* weight under leaf a of u, a 1-D float bias under leaf b, an integer
\* index tensor under v.
NativeTensor(k, src) ==
    [src |-> src,
     dtype |-> IF k[1] = "v" THEN "int64" ELSE "float32",
     rank |-> IF k[2] = "b" THEN 1 ELSE 2]

KeySeqs ==
    UNION { { ks \in [1..n -> KeyUniverse] :
                \A i, j \in 1..n : i # j => ks[i] # ks[j] } : n \in 0..MaxKeys }

\* The `--replace-key` values: a:b, and a:b:a with its two colons.
PairUniverse ==
    { <<"a", ":", "b">>, <<"a", ":", "b", ":", "a">> }

RuleLists == UNION { [1..n -> PairUniverse] : n \in 0..MaxRules }

\* The `--ignore-key` values.
IgnoreLists == { <<>>, << <<"u", "b">> >>, << <<"b">> >> }

\* precision_options(): the flag values of every command, and the two more
\* that include_quantization=True adds.
PlainPrecisions == {"full", "float16"}

QuantPrecisions == {"nf4", "int8"}

NoHint == "<none>"

ModelTypeHints == {NoHint, "sd15"}

\* ------------------------------------------- the pipeline stages (util)

FloatDtypes == {"float32", "float16"}

QuantDtypes == {"nf4", "int8"}

\* load_state_dict(input_file): the flat state dict of input number src
\* whose keys, in file order, are ks.
LoadStateDict(ks, src) ==
    [i \in DOMAIN ks |-> <<ks[i], NativeTensor(ks[i], src)>>]

RECURSIVE RenameKey(_, _)
RenameKey(key, rules) ==
    IF rules = <<>> THEN key
    ELSE RenameKey(Replace(key, Head(rules)[1], Head(rules)[2]), Tail(rules))

SeqToSet(s) == {s[i] : i \in DOMAIN s}

\* get_filtered_renamed_state_dict: ignored keys dropped, the others renamed
\* by every rule in registration order; two keys meeting at one final key
\* is a KeyCollisionError.
RECURSIVE FilterRenameAcc(_, _, _, _)
FilterRenameAcc(acc, sd, ignore_keys, replace_keys) ==
    IF sd = <<>> THEN [ok |-> TRUE, sd |-> acc]
    ELSE IF Head(sd)[1] \in SeqToSet(ignore_keys)
    THEN FilterRenameAcc(acc, Tail(sd), ignore_keys, replace_keys)
    ELSE LET final == RenameKey(Head(sd)[1], replace_keys)
         IN IF DictHas(acc, final) THEN [ok |-> FALSE, sd |-> acc]
            ELSE FilterRenameAcc(Append(acc, <<final, Head(sd)[2]>>),
                                 Tail(sd), ignore_keys, replace_keys)

FilterRename(sd, ignore_keys, replace_keys) ==
    FilterRenameAcc(<<>>, sd, ignore_keys, replace_keys)

\* convert_state_dict_dtype: every floating-point tensor takes the target
\* format; `full` and the two quantized kinds (which are no element format)
\* leave the dict as it is.
ConvertDtype(sd, precision) ==
    IF precision \in FloatDtypes
    THEN [i \in DOMAIN sd |->
            <<sd[i][1],
              IF sd[i][2].dtype \in FloatDtypes
              THEN [sd[i][2] EXCEPT !.dtype = precision]
              ELSE sd[i][2]>>]
    ELSE sd

MinQuantRank == 2

QuantEligible(t) == t.dtype \in FloatDtypes /\ t.rank >= MinQuantRank

\* quantize_state_dict_for_model: an eligible tensor is packed and followed
\* by its dequantization metadata under a derived key.
RECURSIVE QuantizeStateDict(_, _)
QuantizeStateDict(sd, kind) ==
    IF sd = <<>> THEN <<>>
    ELSE (IF QuantEligible(Head(sd)[2])
          THEN << <<Head(sd)[1], [Head(sd)[2] EXCEPT !.dtype = kind]>>,
                  <<Head(sd)[1] \o <<"#">>,
                    [src |-> Head(sd)[2].src, dtype |-> "uint8", rank |-> 1]>> >>
          ELSE << Head(sd) >>)
         \o QuantizeStateDict(Tail(sd), kind)

ExtPlain == ".safetensors"

ExtQuant == ".quantized.safetensors"

\* get_extension_for_state_dict: by whether a quantized tensor is present.
ExtensionFor(sd) ==
    IF \E i \in DOMAIN sd : sd[i][2].dtype \in QuantDtypes
    THEN ExtQuant ELSE ExtPlain

\* The key table of the one architecture modelled: u* goes to the unet,
\* v* to the vae, each under the key without its prefix.
SubModelOf(key) ==
    IF key = <<>> THEN NoValue
    ELSE IF key[1] = "u" THEN "unet"
    ELSE IF key[1] = "v" THEN "vae"
    ELSE NoValue

\* Classification: the unet prefix is the signature of sd15.
Classify(sd, hint) ==
    IF \E i \in DOMAIN sd : SubModelOf(sd[i][1]) = "unet"
    THEN [ok |-> TRUE, model_type |-> "sd15"]
    ELSE [ok |-> FALSE, model_type |-> hint]

RECURSIVE SplitAcc(_, _)
SplitAcc(acc, sd) ==
    IF sd = <<>> THEN [ok |-> TRUE, dicts |-> acc]
    ELSE LET key == Head(sd)[1]
             name == SubModelOf(key)
             bucket == IF DictHas(acc, name) THEN DictGet(acc, name) ELSE <<>>
         IN IF name = NoValue THEN [ok |-> FALSE, dicts |-> acc]
            ELSE SplitAcc(DictSet(acc, name, Append(bucket, <<Tail(key), Head(sd)[2]>>)),
                          Tail(sd))

\* get_diffusers_state_dicts_from_checkpoint, after its load: the model type
\* and the ordered mapping sub-model name -> state dict, empty buckets left
\* out.
DiffusersStateDicts(sd, hint) ==
    LET c == Classify(sd, hint)
        s == SplitAcc(<<>>, sd)
    IN IF ~c.ok THEN [ok |-> FALSE,
                      error |-> IF hint = NoHint THEN "UnknownArchitectureError"
                                ELSE "ArchitectureMismatchError",
                      model_type |-> hint, dicts |-> <<>>]
       ELSE IF ~s.ok THEN [ok |-> FALSE, error |-> "UnmappedKeyError",
                           model_type |-> c.model_type, dicts |-> <<>>]
       ELSE [ok |-> TRUE, error |-> "none",
             model_type |-> c.model_type, dicts |-> s.dicts]


\* ------------------------------------------------- metadata: the numbers

\* An element count is a sequence of base-1000 limbs, least significant
\* first, no leading zero limb: the groups that `{total_params:,d}` prints.
LimbBase == 1000

RECURSIVE BigNorm(_)
BigNorm(a) ==
    IF a = <<>> THEN a
    ELSE IF a[Len(a)] = 0 THEN BigNorm(SubSeq(a, 1, Len(a) - 1))
    ELSE a

RECURSIVE BigAddCarry(_, _, _)
BigAddCarry(a, b, carry) ==
    IF a = <<>> /\ b = <<>>
    THEN (IF carry = 0 THEN <<>> ELSE <<carry>>)
    ELSE LET x == IF a = <<>> THEN 0 ELSE Head(a)
             y == IF b = <<>> THEN 0 ELSE Head(b)
             t == x + y + carry
         IN <<t % LimbBase>>
            \o BigAddCarry(IF a = <<>> THEN a ELSE Tail(a),
                           IF b = <<>> THEN b ELSE Tail(b),
                           t \div LimbBase)

BigAdd(a, b) == BigNorm(BigAddCarry(a, b, 0))

RECURSIVE BigFromInt(_)
BigFromInt(n) ==
    IF n = 0 THEN <<>> ELSE <<n % LimbBase>> \o BigFromInt(n \div LimbBase)

RECURSIVE BigMulCarry(_, _, _)
BigMulCarry(a, k, carry) ==
    IF a = <<>> THEN BigFromInt(carry)
    ELSE LET t == Head(a) * k + carry
         IN <<t % LimbBase>> \o BigMulCarry(Tail(a), k, t \div LimbBase)

\* a * k, for a small k.
BigMulSmall(a, k) == BigNorm(BigMulCarry(a, k, 0))

\* a * 1000^n.
BigShift(a, n) == IF a = <<>> THEN a ELSE [i \in 1..n |-> 0] \o a

RECURSIVE BigLessEq(_, _)
BigLessEq(a, b) ==
    IF Len(a) # Len(b) THEN Len(a) < Len(b)
    ELSE IF a = <<>> THEN TRUE
    ELSE IF a[Len(a)] # b[Len(b)] THEN a[Len(a)] < b[Len(b)]
    ELSE BigLessEq(SubSeq(a, 1, Len(a) - 1), SubSeq(b, 1, Len(b) - 1))

\* value.numel(): the product of the dimensions.
RECURSIVE Numel(_)
Numel(shape) ==
    IF shape = <<>> THEN <<1>>
    ELSE BigMulSmall(Numel(Tail(shape)), Head(shape))

RECURSIVE SumNumel(_)
SumNumel(ss) ==
    IF ss = <<>> THEN <<>> ELSE BigAdd(Numel(Head(ss)), SumNumel(Tail(ss)))

\* The dimensions of the tensors read; a shape lists them largest first.
Dims == {500, 1000}

Shapes ==
    UNION { { sh \in [1..n -> Dims] :
                \A i \in 1..(n - 1) : sh[i] >= sh[i + 1] } : n \in 0..MaxRank }

AbbreviatedUnits == <<"", "K", "M", "B", "T">>

\* for unit in abbreviated_units: break below 1000, else divide by 1000.
\* abbreviated_params is n / 1000^shifts; it is below 1000 when at most one
\* limb of n lies above the shift.  After the last unit the division is
\* still made and the loop ends with that unit.
RECURSIVE AbbreviateLoop(_, _, _)
AbbreviateLoop(n, shifts, i) ==
    IF Len(n) - shifts <= 1
    THEN [unit |-> AbbreviatedUnits[i], shifts |-> shifts]
    ELSE IF i = Len(AbbreviatedUnits)
    THEN [unit |-> AbbreviatedUnits[i], shifts |-> shifts + 1]
    ELSE AbbreviateLoop(n, shifts + 1, i + 1)

\* The integer part of n / 1000^shifts.
RECURSIVE BigToInt(_)
BigToInt(a) == IF a = <<>> THEN 0 ELSE Head(a) + LimbBase * BigToInt(Tail(a))

IntegerPart(n, shifts) ==
    IF Len(n) <= shifts THEN 0 ELSE BigToInt(SubSeq(n, shifts + 1, Len(n)))

\* The first three decimals of n / 1000^shifts, and whether more follow.
FractionLimb(n, shifts) == IF shifts >= 1 /\ shifts <= Len(n) THEN n[shifts] ELSE 0

FractionRest(n, shifts) == \E j \in 1..(shifts - 1) : j <= Len(n) /\ n[j] # 0

\* "{0:.<precision>f}{1}".format(abbreviated_params, unit), the number as
\* its digits without the point.  Rounding is to nearest; at an exact
\* decimal tie the direction depends on the binary value of the float, and
\* both directions are given.
Abbreviations(n) ==
    LET l == AbbreviateLoop(n, 0, 1)
        whole == IntegerPart(n, l.shifts)
        frac == FractionLimb(n, l.shifts)
        rest == FractionRest(n, l.shifts)
        prec == IF l.unit = "" THEN 0 ELSE IF whole < 10 THEN 1 ELSE 0
        down == IF prec = 1 THEN whole * 10 + frac \div 100 ELSE whole
        part == IF prec = 1 THEN (frac % 100) * 10 ELSE frac
        ups == IF part > 500 \/ (part = 500 /\ rest) THEN {1}
               ELSE IF part = 500 THEN {0, 1}
               ELSE {0}
    IN { [digits |-> down + up, precision |-> prec, unit |-> l.unit,
          shifts |-> l.shifts] : up \in ups }

\* ------------------------------------------------------------------ state

VARIABLES
    cmd,            \* the command invoked, "none" before
    pc,             \* its position: idle, load, loop, filter, cast, quantize,
                    \* output, tensors, done, error
    error,          \* the exception that ended it, "none" otherwise
    bound,          \* the options read so far
    replace_key,    \* --replace-key, as given
    replace_keys,   \* the rule dict built from it
    ignore_key,     \* --ignore-key
    precision,      \* the precision flag
    quantization,   \* convert-to-diffusers: nf4, int8 or none
    overwrite,      \* --overwrite
    loaded,         \* combine: the state dicts loaded so far, in file order
    state_dict,     \* the state dict in hand (combine: combined_state_dict)
    filter_input,   \* the state dict handed to the last filter/rename call
    model_type,     \* convert-to-diffusers: the resolved architecture
    state_dicts,    \* convert-to-diffusers: sub-model name -> state dict
    idx,            \* convert-to-diffusers: sub-models taken from state_dicts
    model_name,     \* the sub-model in hand, "" in the single-output commands
    quantized,      \* whether the quantizer ran on the state dict in hand
    fs,             \* the output paths: what each holds now
    pre,            \* the output paths: what each held when first looked at
    stages,         \* the stage calls made, in order
    written,        \* the paths save_file completed on, in order
    skipped,        \* the paths reported as already existing, in order
    shapes,         \* metadata: the shapes of the tensors iterated so far
    total_params,   \* metadata: the running element count
    abbreviated     \* metadata: the abbreviation printed

vars == <<cmd, pc, error, bound, replace_key, replace_keys, ignore_key,
          precision, quantization, overwrite, loaded, state_dict,
          filter_input, model_type, state_dicts, idx, model_name, quantized,
          fs, pre, stages, written, skipped, shapes, total_params,
          abbreviated>>

optionVars == <<bound, replace_key, replace_keys, ignore_key, precision,
                quantization, overwrite>>

diffusersVars == <<model_type, state_dicts, idx, model_name>>

fileVars == <<fs, pre, written, skipped>>

metadataVars == <<shapes, total_params, abbreviated>>

\* f"{name}-{model_name}{extension}", and f"{name}{extension}" for the
\* model_name "" of the single-output commands.  `name` is the same in
\* every path of an invocation and is left out.
OutputFile(sub_model, ext) == <<sub_model, ext>>

SubModelNames == {"unet", "vae"}

Paths == ({""} \cup SubModelNames) \X {ExtPlain, ExtQuant}

Unobserved == [kind |-> "unobserved", data |-> <<>>]

Absent == [kind |-> "absent", data |-> <<>>]

OldFile == [kind |-> "old", data |-> <<>>]

NewFile(sd) == [kind |-> "new", data |-> sd]

NoAbbreviation == [digits |-> 0, precision |-> 0, unit |-> "", shifts |-> 0]

Init ==
    /\ cmd = "none"
    /\ pc = "idle"
    /\ error = "none"
    /\ bound = {}
    /\ replace_key = <<>>
    /\ replace_keys = <<>>
    /\ ignore_key = <<>>
    /\ precision = "full"
    /\ quantization = "none"
    /\ overwrite = FALSE
    /\ loaded = <<>>
    /\ state_dict = <<>>
    /\ filter_input = <<>>
    /\ model_type = NoHint
    /\ state_dicts = <<>>
    /\ idx = 0
    /\ model_name = ""
    /\ quantized = FALSE
    /\ fs = [p \in Paths |-> Unobserved]
    /\ pre = [p \in Paths |-> "unobserved"]
    /\ stages = <<>>
    /\ written = <<>>
    /\ skipped = <<>>
    /\ shapes = <<>>
    /\ total_params = <<>>
    /\ abbreviated = NoAbbreviation

\* The values an option can take where it is read: its value when it was
\* read before, any value of its type otherwise.
Option(name, current, values) == IF name \in bound THEN {current} ELSE values

\* ------------------------------------------------------- control of a run

\* AfterStage with a fault: the exception of a stage is swallowed.
AfterStageSwallowed(ok, next) == next

\* No command catches an exception of a stage: the command ends there.
AfterStage(ok, next) == IF ok THEN next ELSE "error"

\* Quantization with a fault: only nf4 selects the quantizer.
QuantizationNf4Only(p) == IF p = "nf4" THEN p ELSE "none"

\* if precision in ["nf4", "int8"]: quantization = precision, else None.
Quantization(p) == IF p \in {"nf4", "int8"} THEN p ELSE "none"

\* AfterCast with a fault: the quantizer is called in every command.
AfterCastAlways(c, q) == "quantize"

\* After the cast: convert-to-diffusers calls the quantizer when a
\* quantization is selected; every other path goes to the output.
AfterCast(c, q) ==
    IF c = "convert-to-diffusers" /\ q # "none" THEN "quantize" ELSE "output"

\* OutputDecision with a fault: an existing file is replaced without the flag.
OutputDecisionForced(exists, ow) == IF exists THEN "remove" ELSE "write"

\* if os.path.exists(output_file): remove it under overwrite, else report
\* and leave; a path that does not exist is just written.
OutputDecision(exists, ow) ==
    IF exists THEN (IF ow THEN "remove" ELSE "skip") ELSE "write"

\* AfterSkip with a fault: an existing file ends convert-to-diffusers too.
AfterSkipReturn(c) == "done"

\* After the report of an existing file: `continue` in the loop of
\* convert-to-diffusers, `return` in convert and combine.
AfterSkip(c) == IF c = "convert-to-diffusers" THEN "loop" ELSE "done"

\* After save_file: the next sub-model, or the end of the command.
AfterSave(c) == IF c = "convert-to-diffusers" THEN "loop" ELSE "done"

PrecisionsOf(c) ==
    IF c = "convert-to-diffusers" THEN PlainPrecisions \cup QuantPrecisions
    ELSE PlainPrecisions

\* ---------------------------------------------------------------- convert

\* convert, to its load: the rule dict, then load_state_dict(input_file).
Convert ==
    /\ pc = "idle"
    /\ \E rk \in RuleLists, ks \in KeySeqs, loadOk \in BOOLEAN :
        /\ cmd' = "convert"
        /\ replace_key' = rk
        /\ replace_keys' = ParseReplaceKeys(rk)
        /\ bound' = bound \cup {"replace_key"}
        /\ stages' = Append(stages, "Loader")
        /\ state_dict' = IF loadOk THEN LoadStateDict(ks, 1) ELSE state_dict
        /\ error' = IF loadOk THEN error ELSE "LoadError"
        /\ pc' = AfterStage(loadOk, "filter")
    /\ UNCHANGED <<ignore_key, precision, quantization, overwrite, loaded,
                   filter_input, quantized>>
    /\ UNCHANGED <<diffusersVars, fileVars, metadataVars>>

\* ---------------------------------------------------------------- combine

\* combine, to its loop: the rule dict and the empty combined_state_dict.
Combine ==
    /\ pc = "idle"
    /\ \E rk \in RuleLists :
        /\ cmd' = "combine"
        /\ replace_key' = rk
        /\ replace_keys' = ParseReplaceKeys(rk)
        /\ bound' = bound \cup {"replace_key"}
    /\ state_dict' = <<>>
    /\ pc' = "load"
    /\ UNCHANGED <<error, ignore_key, precision, quantization, overwrite,
                   loaded, filter_input, quantized, stages>>
    /\ UNCHANGED <<diffusersVars, fileVars, metadataVars>>

\* One round of `for input_file in input_files`: load, then update.
CombineLoad ==
    /\ cmd = "combine"
    /\ pc = "load"
    /\ Len(loaded) < MaxFiles
    /\ \E ks \in KeySeqs, loadOk \in BOOLEAN :
        LET sd == LoadStateDict(ks, Len(loaded) + 1)
        IN /\ stages' = Append(stages, "Loader")
           /\ loaded' = IF loadOk THEN Append(loaded, sd) ELSE loaded
           /\ state_dict' = IF loadOk THEN DictUpdate(state_dict, sd)
                            ELSE state_dict
           /\ error' = IF loadOk THEN error ELSE "LoadError"
           /\ pc' = AfterStage(loadOk, "load")
    /\ UNCHANGED <<cmd, optionVars, filter_input, quantized>>
    /\ UNCHANGED <<diffusersVars, fileVars, metadataVars>>

\* The loop is through: the loaded dicts are dropped, the merge goes on.
CombineMerged ==
    /\ cmd = "combine"
    /\ pc = "load"
    /\ loaded' = <<>>
    /\ pc' = "filter"
    /\ UNCHANGED <<cmd, error, optionVars, state_dict, filter_input,
                   quantized, stages>>
    /\ UNCHANGED <<diffusersVars, fileVars, metadataVars>>

\* --------------------------------------------------- convert-to-diffusers

\* convert-to-diffusers, to its loop: the quantization, the rule dict, and
\* the load, classification and split of the checkpoint.
ConvertToDiffusers ==
    /\ pc = "idle"
    /\ \E p \in PrecisionsOf("convert-to-diffusers"), rk \in RuleLists,
          ks \in KeySeqs, hint \in ModelTypeHints, loadOk \in BOOLEAN :
        LET r == DiffusersStateDicts(LoadStateDict(ks, 1), hint)
        IN /\ cmd' = "convert-to-diffusers"
           /\ precision' = p
           /\ quantization' = Quantization(p)
           /\ replace_key' = rk
           /\ replace_keys' = ParseReplaceKeys(rk)
           /\ bound' = bound \cup {"precision", "replace_key"}
           /\ stages' = IF loadOk
                        THEN stages \o <<"Loader", "Classifier/Splitter">>
                        ELSE Append(stages, "Loader")
           /\ model_type' = IF loadOk THEN r.model_type ELSE hint
           /\ state_dicts' = IF loadOk /\ r.ok THEN r.dicts ELSE state_dicts
           /\ error' = IF ~loadOk THEN "LoadError"
                       ELSE IF ~r.ok THEN r.error ELSE error
           /\ pc' = AfterStage(loadOk /\ r.ok, "loop")
    /\ UNCHANGED <<ignore_key, overwrite, loaded, state_dict, filter_input,
                   idx, model_name, quantized>>
    /\ UNCHANGED <<fileVars, metadataVars>>

\* `for model_name, state_dict in state_dicts.items()`: the next sub-model,
\* or "Done!" after the last.
DiffusersNext ==
    /\ cmd = "convert-to-diffusers"
    /\ pc = "loop"
    /\ IF idx < Len(state_dicts)
       THEN /\ idx' = idx + 1
            /\ model_name' = state_dicts[idx + 1][1]
            /\ state_dict' = state_dicts[idx + 1][2]
            /\ quantized' = FALSE
            /\ pc' = "filter"
       ELSE /\ pc' = "done"
            /\ UNCHANGED <<idx, model_name, state_dict, quantized>>
    /\ UNCHANGED <<cmd, error, optionVars, loaded, filter_input, model_type,
                   state_dicts, stages>>
    /\ UNCHANGED <<fileVars, metadataVars>>

\* ------------------------------------------------ the stages of a command

\* state_dict = get_filtered_renamed_state_dict(state_dict, ...).
FilterRenameStage ==
    /\ pc = "filter"
    /\ \E ig \in Option("ignore_key", ignore_key, IgnoreLists) :
        LET r == FilterRename(state_dict, ig, replace_keys)
        IN /\ ignore_key' = ig
           /\ bound' = bound \cup {"ignore_key"}
           /\ filter_input' = state_dict
           /\ state_dict' = IF r.ok THEN r.sd ELSE state_dict
           /\ error' = IF r.ok THEN error ELSE "KeyCollisionError"
           /\ pc' = AfterStage(r.ok, "cast")
    /\ stages' = Append(stages, "Filter/Rename")
    /\ UNCHANGED <<cmd, replace_key, replace_keys, precision, quantization,
                   overwrite, loaded, quantized>>
    /\ UNCHANGED <<diffusersVars, fileVars, metadataVars>>

\* convert_state_dict_dtype(state_dict, precision).
CastStage ==
    /\ pc = "cast"
    /\ \E p \in Option("precision", precision, PrecisionsOf(cmd)) :
        \E ok \in (IF p \in FloatDtypes THEN BOOLEAN ELSE {TRUE}) :
            /\ precision' = p
            /\ bound' = bound \cup {"precision"}
            /\ state_dict' = IF ok THEN ConvertDtype(state_dict, p)
                             ELSE state_dict
            /\ error' = IF ok THEN error ELSE "UnsupportedCastError"
            /\ pc' = AfterStage(ok, AfterCast(cmd, quantization))
    /\ stages' = Append(stages, "Caster")
    /\ UNCHANGED <<cmd, replace_key, replace_keys, ignore_key, quantization,
                   overwrite, loaded, filter_input, quantized>>
    /\ UNCHANGED <<diffusersVars, fileVars, metadataVars>>

\* state_dict = quantize_state_dict_for_model(state_dict, ...).
QuantizeStage ==
    /\ pc = "quantize"
    /\ \E ok \in BOOLEAN :
        /\ state_dict' = IF ok THEN QuantizeStateDict(state_dict, precision)
                         ELSE state_dict
        /\ quantized' = ok
        /\ error' = IF ok THEN error ELSE "QuantizationError"
        /\ pc' = AfterStage(ok, "output")
    /\ stages' = Append(stages, "Quantizer")
    /\ UNCHANGED <<cmd, optionVars, loaded, filter_input>>
    /\ UNCHANGED <<diffusersVars, fileVars, metadataVars>>

\* From get_extension_for_state_dict to save_file: the output path, the
\* check of its existence, the removal under overwrite, the write.  The
\* writer writes to completion or raises and leaves nothing at the path.
OutputStage ==
    /\ pc = "output"
    /\ LET path == OutputFile(model_name, ExtensionFor(state_dict))
       IN \E exists \in (IF pre[path] = "unobserved" THEN BOOLEAN
                         ELSE {fs[path].kind # "absent"}),
             ow \in Option("overwrite", overwrite, BOOLEAN) :
          \E writeOk \in (IF OutputDecision(exists, ow) = "skip" THEN {TRUE}
                          ELSE BOOLEAN) :
            LET decision == OutputDecision(exists, ow)
                seen == IF exists THEN "old" ELSE "absent"
                before == IF pre[path] = "unobserved"
                          THEN (IF exists THEN OldFile ELSE Absent)
                          ELSE fs[path]
            IN /\ overwrite' = ow
               /\ bound' = bound \cup {"overwrite"}
               /\ pre' = IF pre[path] = "unobserved"
                         THEN [pre EXCEPT ![path] = seen] ELSE pre
               /\ IF decision = "skip"
                  THEN /\ fs' = [fs EXCEPT ![path] = before]
                       /\ skipped' = Append(skipped, path)
                       /\ pc' = AfterSkip(cmd)
                       /\ UNCHANGED <<written, stages, error>>
                  ELSE /\ fs' = [fs EXCEPT ![path] =
                                   IF writeOk THEN NewFile(state_dict)
                                   ELSE Absent]
                       /\ written' = IF writeOk THEN Append(written, path)
                                     ELSE written
                       /\ stages' = Append(stages, "Writer")
                       /\ error' = IF writeOk THEN error ELSE "WriteError"
                       /\ pc' = AfterStage(writeOk, AfterSave(cmd))
                       /\ UNCHANGED skipped
    /\ UNCHANGED <<cmd, replace_key, replace_keys, ignore_key, precision,
                   quantization, loaded, state_dict, filter_input, quantized>>
    /\ UNCHANGED <<diffusersVars, metadataVars>>

\* --------------------------------------------------------------- metadata

\* metadata, to its loop: load_state_dict(input_file), total_params = 0.
Metadata ==
    /\ pc = "idle"
    /\ \E loadOk \in BOOLEAN :
        /\ cmd' = "metadata"
        /\ stages' = Append(stages, "Loader")
        /\ error' = IF loadOk THEN error ELSE "LoadError"
        /\ pc' = AfterStage(loadOk, "tensors")
    /\ total_params' = <<>>
    /\ UNCHANGED <<optionVars, loaded, state_dict, filter_input, quantized,
                   shapes, abbreviated>>
    /\ UNCHANGED <<diffusersVars, fileVars>>

\* One round of `for key, value in state_dict.items()`.
MetadataTensor ==
    /\ cmd = "metadata"
    /\ pc = "tensors"
    /\ Len(shapes) < MaxTensors
    /\ \E shape \in Shapes :
        /\ shapes' = Append(shapes, shape)
        /\ total_params' = BigAdd(total_params, Numel(shape))
    /\ UNCHANGED <<cmd, pc, error, optionVars, loaded, state_dict,
                   filter_input, quantized, stages, abbreviated>>
    /\ UNCHANGED <<diffusersVars, fileVars>>

\* After the loop: the abbreviation and the total are printed.
MetadataReport ==
    /\ cmd = "metadata"
    /\ pc = "tensors"
    /\ abbreviated' \in Abbreviations(total_params)
    /\ pc' = "done"
    /\ UNCHANGED <<cmd, error, optionVars, loaded, state_dict, filter_input,
                   quantized, stages, shapes, total_params>>
    /\ UNCHANGED <<diffusersVars, fileVars>>

Next ==
    \/ Convert
    \/ Combine
    \/ CombineLoad
    \/ CombineMerged
    \/ ConvertToDiffusers
    \/ DiffusersNext
    \/ FilterRenameStage
    \/ CastStage
    \/ QuantizeStage
    \/ OutputStage
    \/ Metadata
    \/ MetadataTensor
    \/ MetadataReport

Spec == Init /\ [][Next]_vars

\* ------------------------------------------------------------- properties

Count(seq, x) == Cardinality({i \in DOMAIN seq : seq[i] = x})

Max(S) == CHOOSE x \in S : \A y \in S : y <= x

Min(S) == CHOOSE x \in S : \A y \in S : x <= y

\* C1: in combine, at every point of the loading loop, the merged state
\* dict has exactly the keys of the files loaded so far, and holds at each
\* key the tensor of the last loaded file that contains the key.
C1_CombineLastFileWins ==
    (cmd = "combine" /\ pc = "load") =>
        /\ DictKeys(state_dict) = UNION {DictKeys(loaded[i]) : i \in DOMAIN loaded}
        /\ \A k \in DictKeys(state_dict) :
             LET last == Max({i \in DOMAIN loaded : DictHas(loaded[i], k)})
             IN DictGet(state_dict, k) = DictGet(loaded[last], k)

\* Two files share a key and the first has a key of its own.
C1_Witness ==
    /\ cmd = "combine" /\ pc = "load" /\ Len(loaded) = 2
    /\ \E k \in DictKeys(loaded[1]) \cap DictKeys(loaded[2]) :
         DictGet(state_dict, k).src = 2
    /\ \E k \in DictKeys(loaded[1]) : ~DictHas(loaded[2], k)

UnitExponent(unit) ==
    CHOOSE e \in 0..(Len(AbbreviatedUnits) - 1) : AbbreviatedUnits[e + 1] = unit

\* C2: when metadata has reported, the total is the sum of the element
\* counts of the tensors, and the printed number times the magnitude of the
\* printed suffix is the total to within half a unit of the last printed
\* digit.
C2_AbbreviationScalesTotal ==
    (cmd = "metadata" /\ pc = "done") =>
        /\ total_params = SumNumel(shapes)
        /\ LET e == UnitExponent(abbreviated.unit)
               scale == IF abbreviated.precision = 1 THEN 10 ELSE 1
               exact == BigMulSmall(total_params, 2 * scale)
               shown == BigShift(BigFromInt(2 * abbreviated.digits), e)
               half == BigShift(<<1>>, e)
           IN /\ BigLessEq(exact, BigAdd(shown, half))
              /\ BigLessEq(shown, BigAdd(exact, half))

\* C3: an output path found existing while overwrite is off keeps its
\* content, and in convert and combine the command then ends with no write.
C3_ExistingFileKept ==
    \A p \in Paths :
        (pre[p] = "old" /\ "overwrite" \in bound /\ ~overwrite) =>
            /\ fs[p] = OldFile
            /\ Count(written, p) = 0
            /\ cmd \in {"convert", "combine"} =>
                 /\ pc = "done"
                 /\ written = <<>>
                 /\ Count(stages, "Writer") = 0
                 /\ \A q \in Paths : fs[q].kind # "new"

C3_Witness ==
    /\ cmd = "combine" /\ pc = "done" /\ ~overwrite
    /\ pre[OutputFile("", ExtPlain)] = "old"
    /\ skipped = <<OutputFile("", ExtPlain)>>

CoreErrors ==
    {"KeyCollisionError", "UnsupportedCastError", "QuantizationError"}

\* C4: convert-to-diffusers never ends on a core error of one sub-model
\* while later sub-models of the split are still unprocessed.
C4_FailureSkipsOnlyItsSubModel ==
    ~(/\ cmd = "convert-to-diffusers"
      /\ pc = "error"
      /\ error \in CoreErrors
      /\ idx < Len(state_dicts))

\* What a path held before the command, as far as the command looked.
Before(p) ==
    IF pre[p] = "old" THEN OldFile
    ELSE IF pre[p] = "absent" THEN Absent
    ELSE Unobserved

\* C5: when a command has ended, normally or on an error, every output path
\* holds a complete new state dict or exactly what it held before.
C5_OutputAtomic ==
    pc \in {"done", "error"} =>
        \A p \in Paths : fs[p].kind = "new" \/ fs[p] = Before(p)

StageRank(stage) ==
    CASE stage = "Loader" -> 1
      [] stage = "Filter/Rename" -> 2
      [] stage = "Caster" -> 3
      [] stage = "Classifier/Splitter" -> 4
      [] stage = "Quantizer" -> 5
      [] stage = "Writer" -> 6

StageSuccessors(stage) ==
    CASE stage = "Loader" ->
            IF cmd = "combine" THEN {"Loader", "Filter/Rename"}
            ELSE IF cmd = "convert-to-diffusers" THEN {"Classifier/Splitter"}
            ELSE {"Filter/Rename"}
      [] stage = "Classifier/Splitter" -> {"Filter/Rename"}
      [] stage = "Filter/Rename" -> {"Caster"}
      [] stage = "Caster" ->
            IF cmd = "convert-to-diffusers"
            THEN (IF quantization # "none" THEN {"Quantizer"}
                  ELSE {"Writer", "Filter/Rename"})
            ELSE {"Writer"}
      [] stage = "Quantizer" -> {"Writer", "Filter/Rename"}
      [] stage = "Writer" ->
            IF cmd = "convert-to-diffusers" THEN {"Filter/Rename"} ELSE {}

Surviving(sd, ig) == {i \in DOMAIN sd : sd[i][1] \notin SeqToSet(ig)}

Collides(sd, ig, rules) ==
    \E i, j \in Surviving(sd, ig) :
        i # j /\ RenameKey(sd[i][1], rules) = RenameKey(sd[j][1], rules)

\* C7: a filter/rename call in which two surviving keys meet at one final
\* key ends the unit with a key-collision error and without an output file;
\* a call that returns holds every surviving tensor under its renamed key.
C7_CollisionFailsUnit ==
    /\ Collides(filter_input, ignore_key, replace_keys) =>
         /\ error = "KeyCollisionError"
         /\ pc = "error"
         /\ \A p \in Paths : p[1] = model_name => fs[p].kind # "new"
         /\ stages[Len(stages)] = "Filter/Rename"
    /\ pc = "cast" =>
         /\ Len(state_dict) = Cardinality(Surviving(filter_input, ignore_key))
         /\ \A i \in Surviving(filter_input, ignore_key) :
              LET k == RenameKey(filter_input[i][1], replace_keys)
              IN DictHas(state_dict, k) /\ DictGet(state_dict, k) = filter_input[i][2]

C7_Witness ==
    /\ error = "KeyCollisionError"
    /\ Collides(filter_input, ignore_key, replace_keys)
    /\ cmd = "convert"

\* The parts of an `old:new` pair, split at its first ":".
OldPart(pair) ==
    SubSeq(pair, 1, Min({i \in DOMAIN pair : pair[i] = ":"} \cup {Len(pair) + 1}) - 1)

NewPart(pair) ==
    SubSeq(pair, Min({i \in DOMAIN pair : pair[i] = ":"} \cup {Len(pair) + 1}) + 1,
           Len(pair))

Finished(i) == i < idx \/ (i = idx /\ pc \in {"loop", "done"})

\* C9: in convert-to-diffusers every sub-model the loop is through with has
\* looked at one output path; it is reported and left alone when the path
\* existed with overwrite off, written exactly once otherwise; and the
\* command ends only after the last sub-model.
C9_SkipIsPerSubModel ==
    cmd = "convert-to-diffusers" =>
        /\ pc = "done" => idx = Len(state_dicts)
        /\ \A i \in DOMAIN state_dicts :
             Finished(i) =>
                LET seen == {p \in Paths : p[1] = state_dicts[i][1]
                                           /\ pre[p] # "unobserved"}
                IN /\ Cardinality(seen) = 1
                   /\ \A p \in seen :
                        IF pre[p] = "old" /\ ~overwrite
                        THEN /\ Count(skipped, p) = 1
                             /\ Count(written, p) = 0
                             /\ fs[p] = OldFile
                        ELSE /\ Count(written, p) = 1
                             /\ Count(skipped, p) = 0
                             /\ fs[p].kind = "new"

\* The first sub-model is skipped and the second written.
C9_Witness ==
    /\ cmd = "convert-to-diffusers" /\ pc = "done"
    /\ Len(state_dicts) = 2
    /\ Len(skipped) = 1 /\ skipped[1][1] = state_dicts[1][1]
    /\ Len(written) = 1 /\ written[1][1] = state_dicts[2][1]

\* C10: the quantizer is called in convert-to-diffusers exactly under nf4
\* and int8, right after the filter/rename and the cast of the sub-model,
\* and what is written, under an extension chosen from it, is its result;
\* convert and combine never call it.
C10_QuantizerIffSelected ==
    /\ cmd # "convert-to-diffusers" => Count(stages, "Quantizer") = 0
    /\ precision \notin {"nf4", "int8"} => Count(stages, "Quantizer") = 0
    /\ (cmd = "convert-to-diffusers" /\ pc = "output") =>
         /\ quantized <=> precision \in {"nf4", "int8"}
         /\ quantized =>
              /\ Len(stages) >= 3
              /\ SubSeq(stages, Len(stages) - 2, Len(stages))
                   = <<"Filter/Rename", "Caster", "Quantizer">>
              /\ \A i \in DOMAIN state_dict : ~QuantEligible(state_dict[i][2])
    /\ \A p \in Paths :
         fs[p].kind = "new" =>
            /\ p[2] = ExtensionFor(fs[p].data)
            /\ \A i \in DOMAIN fs[p].data :
                 /\ fs[p].data[i][2].dtype \in QuantDtypes
                      => fs[p].data[i][2].dtype = precision
                 /\ (cmd = "convert-to-diffusers" /\ precision \in {"nf4", "int8"})
                      => ~QuantEligible(fs[p].data[i][2])

C10_Witness ==
    /\ cmd = "convert-to-diffusers" /\ precision = "int8"
    /\ fs[OutputFile("unet", ExtQuant)].kind = "new"
    /\ fs[OutputFile("vae", ExtPlain)].kind = "new"

====
